---------------------------- MODULE Spec2Model ----------------------------
(***************************************************************************)
(* Model of homework.py: a polling bot that asks the homework-review API   *)
(* for status changes and forwards them to a Telegram chat.                *)
(*                                                                         *)
(* Python values are tagged records [t, v].  A str is a sequence of        *)
(* fragments: the literal pieces of an f-string and the values it          *)
(* interpolates, so that "the text carries X" is "X is a fragment".        *)
(* The Russian literals of the source are written in English, one literal  *)
(* of the model per literal of the source.                                 *)
(*                                                                         *)
(* The import at the top of homework.py is taken to succeed (it names a    *)
(* module exeptions and a class GetApiStatusCodIsNot200 that exceptions.py *)
(* does not define).  Log lines are not state: nothing reads them back.    *)
(* The process is followed until it exits, dies of an uncaught exception,  *)
(* or has begun MaxCycles iterations.                                      *)
(***************************************************************************)
EXTENDS Integers, Sequences, FiniteSets, TLC

\* ------------------------------------------------------------------ bounds
\* Number of polling cycles explored (the loop of main is endless).
MaxCycles == 3
\* int(time.time()) when main starts.
StartClock == 1000

\* ------------------------------------------------------- Python values
None == [t |-> "NoneType", v |-> 0]
PyInt(n) == [t |-> "int", v |-> n]
PyStr(s) == [t |-> "str", v |-> s]
PyList(l) == [t |-> "list", v |-> l]
PyDict(d) == [t |-> "dict", v |-> d]

\* A local that holds nothing yet.
Unbound == [t |-> "unbound", v |-> 0]

\* bool(x): None, 0, '', [] and {} are false, everything else is true.
Truthy(x) ==
  CASE x.t = "NoneType" -> FALSE
    [] x.t = "int" -> x.v # 0
    [] x.t = "str" -> x.v # <<>>
    [] x.t = "list" -> x.v # <<>>
    [] x.t = "dict" -> DOMAIN x.v # {}

\* d.get(k): the value under k, None when k is not a key of d.
Get(d, k) == IF k \in DOMAIN d.v THEN d.v[k] ELSE None

\* The text of a str.
Text(s) == s.v

\* --------------------------------------------------------- module constants
RETRY_TIME == 600
ENDPOINT == "https://practicum.yandex.ru/api/user_api/homework_statuses/"

Approved == PyStr(<<"approved">>)
Reviewing == PyStr(<<"reviewing">>)
Rejected == PyStr(<<"rejected">>)

VerdictApproved == "Work checked: the reviewer liked everything. Hooray!"
VerdictReviewing == "Work taken for review by the reviewer."
VerdictRejected == "Work checked: the reviewer has remarks."

\* HOMEWORK_STATUSES.get(status)
HOMEWORK_STATUSES(status) ==
  CASE status = Approved -> PyStr(<<VerdictApproved>>)
    [] status = Reviewing -> PyStr(<<VerdictReviewing>>)
    [] status = Rejected -> PyStr(<<VerdictRejected>>)
    [] OTHER -> None

\* ---------------------------------------------------------------- exceptions
\* An exception instance: its class and the message it was built with.
Exc(kind, msg) == [kind |-> kind, msg |-> msg]
NoExc == Exc("none", <<>>)

\* str(error), as the f-string of main's except branch renders it: the
\* message itself, except for KeyError, whose str() is the repr of its
\* argument (the message between quotes).
StrOfError(error) ==
  IF error.kind = "KeyError"
    THEN <<"'">> \o error.msg \o <<"'">>
    ELSE error.msg

\* A call either returns a value or raises.
Returned(value) == [ok |-> TRUE, value |-> value, error |-> NoExc]
Raised(error) == [ok |-> FALSE, value |-> None, error |-> error]


\* ------------------------------------------------------------ send_message
\* bot.send_message either delivers the text or raises; send_message turns
\* every failure into SendMessageFailure carrying the text it could not send.
send_message(message, delivered) ==
  IF delivered
    THEN Returned(None)
    ELSE Raised(Exc("SendMessageFailure",
                    <<"Failure sending message \"">> \o Text(message)
                      \o <<"\" to the Telegram chat.">>))

\* ---------------------------------------------------------- get_api_answer
\* What requests.get and .json() can answer: the request itself raises
\* (raises), or a reply arrives with a status code and a body that is valid
\* JSON (json_ok, then body is the decoded value) or is not.
Reply(raises, status_code, json_ok, body) ==
  [raises |-> raises, status_code |-> status_code, json_ok |-> json_ok,
   body |-> body]

\* No request made yet.
NoReply == Reply(FALSE, 0, FALSE, Unbound)

\* The text of a status code, as an f-string renders the int.
StatusCodeText(status_code) ==
  CASE status_code = 200 -> "200"
    [] status_code = 404 -> "404"
    [] status_code = 500 -> "500"
    [] OTHER -> "nnn"

\* The request dated by the local clock whatever the cursor.
FromDateNow(current_timestamp, now) == PyInt(now)

\* timestamp = current_timestamp or int(time.time())
FromDate(current_timestamp, now) ==
  IF Truthy(current_timestamp) THEN current_timestamp ELSE PyInt(now)

\* The message built for a non-200 reply.  The second f-string literal of the
\* source stands on a line of its own, an expression statement: it is not
\* part of the assignment, so the status code never enters the message.
Not200Message == <<"Status code of the reply to the request to \"", ENDPOINT,
                   "\" equals ">>

\* The try block: requests.get raises on a transport failure; a reply whose
\* status code is not 200 raises GetApiStatusCodIsNot200 with Not200Message.
TryRequest(reply) ==
  IF reply.raises
    THEN Raised(Exc("ConnectionError", <<"connection failed">>))
  ELSE IF reply.status_code # 200
    THEN Raised(Exc("GetApiStatusCodIsNot200", Not200Message))
  ELSE Returned(None)

\* The except clause of that same try statement catches whatever the block
\* raised, the status-code error included, and raises GetApiError with one
\* fixed message in its place.  .json() is called after the try statement:
\* its failure on a body that is not JSON leaves the function as it is.
get_api_answer(reply) ==
  IF ~TryRequest(reply).ok
    THEN Raised(Exc("GetApiError",
                    <<"Could not get the information from the server.">>))
  ELSE IF ~reply.json_ok
    THEN Raised(Exc("JSONDecodeError", <<"Expecting value">>))
  ELSE Returned(reply.body)

\* ---------------------------------------------------------- check_response
\* check_response asking for the homeworks key alone.
check_responseIgnoresDate(response) ==
  IF response = None
    THEN Raised(Exc("EmptyResponse", <<"No data in the reply of the API.">>))
  ELSE IF response.t # "dict"
    THEN Raised(Exc("TypeError",
                    <<"Got a wrong data type from the API.">>))
  ELSE IF "homeworks" \notin DOMAIN response.v
    THEN Raised(Exc("IncorrectApiAnswer",
                    <<"Got an incorrect reply from the API.">>))
  ELSE IF response.v["homeworks"].t # "list"
    THEN Raised(Exc("TypeError",
                    <<"The reply of the API has no list of homeworks.">>))
  ELSE Returned(response.v["homeworks"])

check_response(response) ==
  IF response = None
    THEN Raised(Exc("EmptyResponse", <<"No data in the reply of the API.">>))
  ELSE IF response.t # "dict"
    THEN Raised(Exc("TypeError",
                    <<"Got a wrong data type from the API.">>))
  ELSE IF "homeworks" \notin DOMAIN response.v
          \/ "current_date" \notin DOMAIN response.v
    THEN Raised(Exc("IncorrectApiAnswer",
                    <<"Got an incorrect reply from the API.">>))
  ELSE IF response.v["homeworks"].t # "list"
    THEN Raised(Exc("TypeError",
                    <<"The reply of the API has no list of homeworks.">>))
  ELSE Returned(response.v["homeworks"])

\* ------------------------------------------------------------ parse_status
\* parse_status without its test of homework_status: a record without a
\* status then fails the catalog lookup instead.
parse_statusNoStatusTest(homework) ==
  IF homework.t # "dict"
    THEN Raised(Exc("AttributeError",
                    <<"'", homework.t, "' object has no attribute 'get'">>))
  ELSE
    LET homework_name == Get(homework, "homework_name")
        homework_status == Get(homework, "status")
        verdict == HOMEWORK_STATUSES(homework_status)
    IN  IF homework_name = None
          THEN Raised(Exc("KeyError",
                 <<"Homework name not found in the API reply.">>))
        ELSE IF verdict = None
          THEN Raised(Exc("KeyError",
                 <<"Undocumented homework status in the API reply.">>))
        ELSE Returned(PyStr(<<"Review status of work \"">>
                            \o Text(homework_name) \o <<"\" changed. ">>
                            \o Text(verdict)))

\* homework.get exists on a dict only: any other element of the list raises
\* AttributeError on the first line.  homework_name and status are JSON
\* strings or null in the inputs below.
parse_status(homework) ==
  IF homework.t # "dict"
    THEN Raised(Exc("AttributeError",
                    <<"'", homework.t, "' object has no attribute 'get'">>))
  ELSE
    LET homework_name == Get(homework, "homework_name")
        homework_status == Get(homework, "status")
        verdict == HOMEWORK_STATUSES(homework_status)
    IN  IF homework_name = None
          THEN Raised(Exc("KeyError",
                 <<"Homework name not found in the API reply.">>))
        ELSE IF homework_status = None
          THEN Raised(Exc("KeyError",
                 <<"Homework status not found in the API reply.">>))
        ELSE IF verdict = None
          THEN Raised(Exc("KeyError",
                 <<"Undocumented homework status in the API reply.">>))
        ELSE Returned(PyStr(<<"Review status of work \"">>
                            \o Text(homework_name) \o <<"\" changed. ">>
                            \o Text(verdict)))

\* ------------------------------------------------------------ check_tokens
\* check_tokens without its last branch.
check_tokensSkipsChatId(PRACTICUM_TOKEN, TELEGRAM_TOKEN, TELEGRAM_CHAT_ID) ==
  IF ~Truthy(PRACTICUM_TOKEN) THEN FALSE
  ELSE IF ~Truthy(TELEGRAM_TOKEN) THEN FALSE
  ELSE TRUE

check_tokens(PRACTICUM_TOKEN, TELEGRAM_TOKEN, TELEGRAM_CHAT_ID) ==
  IF ~Truthy(PRACTICUM_TOKEN) THEN FALSE
  ELSE IF ~Truthy(TELEGRAM_TOKEN) THEN FALSE
  ELSE IF ~Truthy(TELEGRAM_CHAT_ID) THEN FALSE
  ELSE TRUE


\* -------------------------------------------------------------------- state
VARIABLES
  env,                \* PRACTICUM_TOKEN, TELEGRAM_TOKEN, TELEGRAM_CHAT_ID
  pc,                 \* the statement of main that runs next
  clock,              \* time.time()
  cycles,             \* iterations of the while loop begun so far
  current_timestamp, last_message, last_error,
  homework_statuses,  \* get_api_answer's local: what requests.get answered
  response, homeworks_list, homework, status_str, error, message,
  obs,                \* what the current iteration has done so far
  prev,               \* obs of the iteration before it
  hist                \* what the chat and the server last got through

vars == <<env, pc, clock, cycles, current_timestamp, last_message, last_error,
          homework_statuses, response, homeworks_list, homework, status_str,
          error, message, obs, prev, hist>>

locals == <<homework_statuses, response, homeworks_list, homework,
            status_str, error, message>>
dedup == <<last_message, last_error>>

\* The record of one iteration: the cursor passed to get_api_answer and the
\* from_date it sent, the stages run, the string parse_status returned, the
\* calls of send_message (what for, which text, delivered or not), the
\* durations slept, and the exception the except clause caught.
NoObs ==
  [cursor |-> Unbound, from_date |-> Unbound, stages |-> <<>>,
   status |-> None, sends |-> <<>>, sleeps |-> <<>>, caught |-> NoExc]

Sent(kind, text, ok) == [kind |-> kind, text |-> text, ok |-> ok]

\* The record of the run so far: the status text and the error text the chat
\* received last, and the current_date of the reply of the last iteration
\* that ran through its try block (the startup clock before any has).
History(status, text, date) ==
  [status |-> status, error |-> text, date |-> date]

\* ------------------------------------------------------------------- inputs
\* os.getenv: an unset variable, an empty one, a set one.
TokenValues == {None, PyStr(<<>>), PyStr(<<"secret">>)}

Homework(name, status) ==
  PyDict([k \in {"homework_name", "status"} |->
            IF k = "homework_name" THEN name ELSE status])
Api(homeworks, current_date) ==
  PyDict([k \in {"homeworks", "current_date"} |->
            IF k = "homeworks" THEN homeworks ELSE current_date])
Only(key, value) == PyDict([k \in {key} |-> value])

Hw1 == PyStr(<<"hw1">>)
Archived == PyStr(<<"archived">>)
\* The values current_date takes in a reply: the key is all check_response
\* asks for, so null and 0 pass as well as a timestamp.
CurrentDates == {None, PyInt(0), PyInt(2000)}

\* The decoded bodies the server answers with in the polling runs: null, a
\* list, a reply without current_date, one whose homeworks is no list, one
\* with no homework, one with a status outside the catalog, one whose first
\* homework has no name, and well-formed ones (newest homework first).
Bodies ==
  {None, PyList(<<>>),
   Only("homeworks", PyList(<<Homework(Hw1, Approved)>>)),
   Api(PyDict(<<>>), PyInt(2000)),
   Api(PyList(<<>>), PyInt(2000)),
   Api(PyList(<<Homework(Hw1, Archived)>>), PyInt(2000)),
   Api(PyList(<<Only("status", Approved)>>), PyInt(2000)),
   Api(PyList(<<Homework(Hw1, Reviewing), Homework(Hw1, Approved)>>),
       PyInt(2000))}
  \cup {Api(PyList(<<Homework(Hw1, Approved)>>), d) : d \in CurrentDates}

Replies ==
  {Reply(TRUE, 0, FALSE, None), Reply(FALSE, 404, FALSE, None),
   Reply(FALSE, 200, FALSE, None)}
  \cup {Reply(FALSE, 200, TRUE, b) : b \in Bodies}

\* --------------------------------------------------------------------- main
\* The comparison gone: every status is taken for a new one.
StatusChangedAlways(status, last) == TRUE

\* if status_str != last_message
StatusChanged(status, last) == status # last

\* message = f'...: {error}' in the except clause
ErrorMessage(exc) == PyStr(<<"Program failure: ">> \o StrOfError(exc))

\* The comparison gone: every error text is taken for a new one.
ErrorChangedAlways(text, last) == TRUE

\* if message != last_error
ErrorChanged(text, last) == text # last

\* response.get('current_date')
NextTimestamp(reply_body) == Get(reply_body, "current_date")

Init ==
  /\ env \in [{"PRACTICUM_TOKEN", "TELEGRAM_TOKEN", "TELEGRAM_CHAT_ID"}
                -> TokenValues]
  /\ pc = "start"
  /\ clock = StartClock
  /\ cycles = 0
  /\ current_timestamp = Unbound /\ last_message = Unbound
  /\ last_error = Unbound
  /\ homework_statuses = NoReply
  /\ response = Unbound /\ homeworks_list = Unbound /\ homework = Unbound
  /\ status_str = Unbound /\ error = NoExc /\ message = Unbound
  /\ obs = NoObs /\ prev = NoObs
  /\ hist = History(Unbound, Unbound, Unbound)

\* An exception raised inside the try block: control goes to the except
\* clause with the exception bound to error.
Raise(exc) == error' = exc /\ pc' = "except"

\* if not check_tokens(): exit(...); bot, current_timestamp, last_message
\* and last_error are set up.
Start ==
  /\ pc = "start"
  /\ IF check_tokens(env["PRACTICUM_TOKEN"], env["TELEGRAM_TOKEN"],
                     env["TELEGRAM_CHAT_ID"])
       THEN /\ current_timestamp' = PyInt(clock)
            /\ last_message' = None
            /\ last_error' = None
            /\ hist' = History(None, None, PyInt(clock))
            /\ pc' = "loop"
       ELSE /\ pc' = "exited"
            /\ UNCHANGED <<current_timestamp, dedup, hist>>
  /\ UNCHANGED <<env, clock, cycles, locals, obs, prev>>

\* while True: the next iteration begins.  No statement of the loop reads a
\* local before assigning it in the same iteration (error is unbound by
\* Python when the except clause ends), so the locals start the iteration
\* unbound.
Loop ==
  /\ pc = "loop"
  /\ cycles < MaxCycles
  /\ cycles' = cycles + 1
  /\ prev' = obs
  /\ obs' = NoObs
  /\ homework_statuses' = NoReply
  /\ response' = Unbound /\ homeworks_list' = Unbound /\ homework' = Unbound
  /\ status_str' = Unbound /\ error' = NoExc /\ message' = Unbound
  /\ pc' = "fetch"
  /\ UNCHANGED <<env, clock, current_timestamp, dedup, hist>>

\* response = get_api_answer(current_timestamp=current_timestamp)
Fetch ==
  /\ pc = "fetch"
  /\ \E reply \in Replies :
       LET r == get_api_answer(reply)
       IN  /\ homework_statuses' = reply
           /\ IF r.ok
                THEN response' = r.value /\ pc' = "check" /\ UNCHANGED error
                ELSE Raise(r.error) /\ UNCHANGED response
  /\ obs' = [obs EXCEPT !.cursor = current_timestamp,
                        !.from_date = FromDate(current_timestamp, clock),
                        !.stages = Append(@, "fetch")]
  /\ UNCHANGED <<env, clock, cycles, current_timestamp, dedup, homeworks_list,
                 homework, status_str, message, prev, hist>>

\* homeworks_list = check_response(response=response)
Check ==
  /\ pc = "check"
  /\ LET r == check_response(response)
     IN  IF r.ok
           THEN homeworks_list' = r.value /\ pc' = "pick" /\ UNCHANGED error
           ELSE Raise(r.error) /\ UNCHANGED homeworks_list
  /\ obs' = [obs EXCEPT !.stages = Append(@, "validate")]
  /\ UNCHANGED <<env, clock, cycles, current_timestamp, dedup,
                 homework_statuses, response, homework, status_str, message,
                 prev, hist>>

\* if homeworks_list: homework = homeworks_list[0]
\* else: raise NoHomeworkInfo(message)
Pick ==
  /\ pc = "pick"
  /\ IF Truthy(homeworks_list)
       THEN /\ homework' = homeworks_list.v[1]
            /\ pc' = "parse"
            /\ UNCHANGED <<error, message>>
       ELSE /\ message' = PyStr(<<"No information about the homework found.">>)
            /\ Raise(Exc("NoHomeworkInfo", Text(message')))
            /\ UNCHANGED homework
  /\ UNCHANGED <<env, clock, cycles, current_timestamp, dedup,
                 homework_statuses, response, homeworks_list, status_str, obs,
                 prev, hist>>

\* Parse with a failure of parse_status taken for its result: the text of the
\* error becomes the status string.
ParseSwallowsError ==
  /\ pc = "parse"
  /\ LET r == parse_status(homework)
     IN  /\ status_str' = IF r.ok THEN r.value ELSE PyStr(StrOfError(r.error))
         /\ pc' = "compare"
         /\ obs' = [obs EXCEPT !.stages = Append(@, "interpret"),
                               !.status = r.value]
         /\ UNCHANGED error
  /\ UNCHANGED <<env, clock, cycles, current_timestamp, dedup,
                 homework_statuses, response, homeworks_list, homework,
                 message, prev, hist>>

\* status_str = parse_status(homework=homework)
Parse ==
  /\ pc = "parse"
  /\ LET r == parse_status(homework)
     IN  IF r.ok
           THEN /\ status_str' = r.value
                /\ pc' = "compare"
                /\ obs' = [obs EXCEPT !.stages = Append(@, "interpret"),
                                      !.status = r.value]
                /\ UNCHANGED error
           ELSE /\ Raise(r.error)
                /\ obs' = [obs EXCEPT !.stages = Append(@, "interpret")]
                /\ UNCHANGED status_str
  /\ UNCHANGED <<env, clock, cycles, current_timestamp, dedup,
                 homework_statuses, response, homeworks_list, homework,
                 message, prev, hist>>

\* Compare with the cursor moved only when a notification goes out.
CompareSkipsAdvance ==
  /\ pc = "compare"
  /\ IF StatusChanged(status_str, last_message)
       THEN pc' = "send_status" /\ UNCHANGED message
       ELSE /\ message' = PyStr(<<"The homework status has not changed.">>)
            /\ pc' = "sleep"
  /\ UNCHANGED <<env, clock, cycles, current_timestamp, dedup,
                 homework_statuses, response, homeworks_list, homework,
                 status_str, error, obs, prev, hist>>

\* if status_str != last_message: ... else: message = ...; logger.debug
Compare ==
  /\ pc = "compare"
  /\ IF StatusChanged(status_str, last_message)
       THEN pc' = "send_status" /\ UNCHANGED message
       ELSE /\ message' = PyStr(<<"The homework status has not changed.">>)
            /\ pc' = "advance"
  /\ UNCHANGED <<env, clock, cycles, current_timestamp, dedup,
                 homework_statuses, response, homeworks_list, homework,
                 status_str, error, obs, prev, hist>>

\* SendStatus with last_message assigned before the send is known to have
\* gone through.
SendStatusMarksFirst ==
  /\ pc = "send_status"
  /\ last_message' = status_str
  /\ \E delivered \in BOOLEAN :
       LET r == send_message(status_str, delivered)
       IN  /\ IF r.ok
                THEN pc' = "set_last_message" /\ UNCHANGED error
                ELSE Raise(r.error)
           /\ obs' = [obs EXCEPT
                        !.stages = Append(@, "notify"),
                        !.sends = Append(@, Sent("status", status_str, r.ok))]
           /\ hist' = IF r.ok THEN [hist EXCEPT !.status = status_str]
                              ELSE hist
  /\ UNCHANGED <<env, clock, cycles, current_timestamp, last_error,
                 homework_statuses, response, homeworks_list, homework,
                 status_str, message, prev>>

\* SendStatus with the cursor moved before the send is known to have gone
\* through.
SendStatusAdvancesCursor ==
  /\ pc = "send_status"
  /\ current_timestamp' = NextTimestamp(response)
  /\ \E delivered \in BOOLEAN :
       LET r == send_message(status_str, delivered)
       IN  /\ IF r.ok
                THEN pc' = "set_last_message" /\ UNCHANGED error
                ELSE Raise(r.error)
           /\ obs' = [obs EXCEPT
                        !.stages = Append(@, "notify"),
                        !.sends = Append(@, Sent("status", status_str, r.ok))]
           /\ hist' = IF r.ok THEN [hist EXCEPT !.status = status_str]
                              ELSE hist
  /\ UNCHANGED <<env, clock, cycles, dedup, homework_statuses, response,
                 homeworks_list, homework, status_str, message, prev>>

\* send_message(bot=bot, message=status_str)
SendStatus ==
  /\ pc = "send_status"
  /\ \E delivered \in BOOLEAN :
       LET r == send_message(status_str, delivered)
       IN  /\ IF r.ok
                THEN pc' = "set_last_message" /\ UNCHANGED error
                ELSE Raise(r.error)
           /\ obs' = [obs EXCEPT
                        !.stages = Append(@, "notify"),
                        !.sends = Append(@, Sent("status", status_str, r.ok))]
           /\ hist' = IF r.ok THEN [hist EXCEPT !.status = status_str]
                              ELSE hist
  /\ UNCHANGED <<env, clock, cycles, current_timestamp, dedup,
                 homework_statuses, response, homeworks_list, homework,
                 status_str, message, prev>>

\* last_message = status_str
SetLastMessage ==
  /\ pc = "set_last_message"
  /\ last_message' = status_str
  /\ pc' = "advance"
  /\ UNCHANGED <<env, clock, cycles, current_timestamp, last_error, locals,
                 obs, prev, hist>>

\* Advance insisting on an int: a current_date of another type raises, after
\* the notification has gone out.
AdvanceStrict ==
  /\ pc = "advance"
  /\ IF NextTimestamp(response).t = "int"
       THEN /\ current_timestamp' = NextTimestamp(response)
            /\ pc' = "sleep"
            /\ UNCHANGED error
       ELSE /\ Raise(Exc("TypeError", <<"current_date is not an int">>))
            /\ UNCHANGED current_timestamp
  /\ UNCHANGED <<env, clock, cycles, dedup, homework_statuses, response,
                 homeworks_list, homework, status_str, message, obs, prev,
                 hist>>

\* current_timestamp = response.get('current_date')
Advance ==
  /\ pc = "advance"
  /\ current_timestamp' = NextTimestamp(response)
  /\ pc' = "sleep"
  /\ UNCHANGED <<env, clock, cycles, dedup, locals, obs, prev, hist>>

\* Sleep with the error memory cleared after an iteration without errors.
SleepClearsError ==
  /\ pc = "sleep"
  /\ clock' = clock + RETRY_TIME
  /\ obs' = [obs EXCEPT !.sleeps = Append(@, RETRY_TIME)]
  /\ message' = PyStr(<<"The program ran without errors.">>)
  /\ hist' = [hist EXCEPT !.date = Get(response, "current_date")]
  /\ last_error' = None
  /\ pc' = "loop"
  /\ UNCHANGED <<env, cycles, current_timestamp, last_message,
                 homework_statuses, response, homeworks_list, homework,
                 status_str, error, prev>>

\* time.sleep(RETRY_TIME) at the end of the try block, then the else clause
\* of the try statement (a log line), then back to while True.
Sleep ==
  /\ pc = "sleep"
  /\ clock' = clock + RETRY_TIME
  /\ obs' = [obs EXCEPT !.sleeps = Append(@, RETRY_TIME)]
  /\ message' = PyStr(<<"The program ran without errors.">>)
  /\ hist' = [hist EXCEPT !.date = Get(response, "current_date")]
  /\ pc' = "loop"
  /\ UNCHANGED <<env, cycles, current_timestamp, dedup, homework_statuses,
                 response, homeworks_list, homework, status_str, error, prev>>

\* Except with the sleep inside the if: a repeated error text goes straight
\* back to while True.
ExceptSkipsSleep ==
  /\ pc = "except"
  /\ message' = ErrorMessage(error)
  /\ obs' = [obs EXCEPT !.caught = error]
  /\ pc' = IF ErrorChanged(message', last_error)
             THEN "send_error"
             ELSE "loop"
  /\ UNCHANGED <<env, clock, cycles, current_timestamp, dedup,
                 homework_statuses, response, homeworks_list, homework,
                 status_str, error, prev, hist>>

\* except Exception as error: message = f'...: {error}'; logger.error;
\* if message != last_error: ...
Except ==
  /\ pc = "except"
  /\ message' = ErrorMessage(error)
  /\ obs' = [obs EXCEPT !.caught = error]
  /\ pc' = IF ErrorChanged(message', last_error)
             THEN "send_error"
             ELSE "sleep_except"
  /\ UNCHANGED <<env, clock, cycles, current_timestamp, dedup,
                 homework_statuses, response, homeworks_list, homework,
                 status_str, error, prev, hist>>

\* send_message(bot=bot, message=message) inside the except clause: nothing
\* encloses it, so its SendMessageFailure leaves main and ends the process.
SendError ==
  /\ pc = "send_error"
  /\ \E delivered \in BOOLEAN :
       LET r == send_message(message, delivered)
       IN  /\ IF r.ok
                THEN pc' = "set_last_error" /\ UNCHANGED error
                ELSE pc' = "crashed" /\ error' = r.error
           /\ obs' = [obs EXCEPT
                        !.sends = Append(@, Sent("error", message, r.ok))]
           /\ hist' = IF r.ok THEN [hist EXCEPT !.error = message] ELSE hist
  /\ UNCHANGED <<env, clock, cycles, current_timestamp, dedup,
                 homework_statuses, response, homeworks_list, homework,
                 status_str, message, prev>>

\* The assignment of last_error left out.
SetLastErrorForgets ==
  /\ pc = "set_last_error"
  /\ pc' = "sleep_except"
  /\ UNCHANGED <<env, clock, cycles, current_timestamp, dedup, locals,
                 obs, prev, hist>>

\* last_error = message
SetLastError ==
  /\ pc = "set_last_error"
  /\ last_error' = message
  /\ pc' = "sleep_except"
  /\ UNCHANGED <<env, clock, cycles, current_timestamp, last_message, locals,
                 obs, prev, hist>>

\* SleepExcept with the status memory reset after a failed iteration.
SleepExceptResetsStatus ==
  /\ pc = "sleep_except"
  /\ clock' = clock + RETRY_TIME
  /\ obs' = [obs EXCEPT !.sleeps = Append(@, RETRY_TIME)]
  /\ last_message' = None
  /\ pc' = "loop"
  /\ UNCHANGED <<env, cycles, current_timestamp, last_error, locals, prev,
                 hist>>

\* time.sleep(RETRY_TIME) at the end of the except clause.
SleepExcept ==
  /\ pc = "sleep_except"
  /\ clock' = clock + RETRY_TIME
  /\ obs' = [obs EXCEPT !.sleeps = Append(@, RETRY_TIME)]
  /\ pc' = "loop"
  /\ UNCHANGED <<env, cycles, current_timestamp, dedup, locals, prev, hist>>

Next ==
  \/ Start \/ Loop \/ Fetch \/ Check \/ Pick \/ Parse \/ Compare
  \/ SendStatus \/ SetLastMessage \/ Advance \/ Sleep
  \/ Except \/ SendError \/ SetLastError \/ SleepExcept

Spec == Init /\ [][Next]_vars

TypeOK == pc \in {"start", "exited", "loop", "fetch", "check", "pick", "parse",
                  "compare", "send_status", "set_last_message", "advance",
                  "sleep", "except", "send_error", "set_last_error",
                  "sleep_except", "crashed"}


\* ------------------------------------------------ check_response on its own
\* Every dict over some of the keys of values, each key with one of the
\* values listed for it.
DictsOver(values) ==
  UNION {{PyDict(f) : f \in {g \in [K -> UNION {values[k] : k \in K}] :
                              \A k \in K : g[k] \in values[k]}} :
         K \in SUBSET DOMAIN values}

\* The keys a reply may have, and the values under each.
ApiValues ==
  [homeworks |->
     {None, PyInt(0), PyStr(<<"none">>), PyDict(<<>>), PyList(<<>>),
      PyList(<<Homework(Hw1, Approved)>>),
      PyList(<<Homework(Hw1, Reviewing), Homework(Hw1, Approved)>>)},
   current_date |-> CurrentDates,
   code |-> {PyStr(<<"not_authenticated">>)}]

CheckInputs ==
  {None, PyInt(0), PyInt(5), PyStr(<<>>), PyStr(<<"error">>), PyList(<<>>),
   PyList(<<Homework(Hw1, Approved)>>)}
  \cup DictsOver(ApiValues)

\* main after a first fetch that returned any of CheckInputs.
InitCheck ==
  /\ env = [k \in {"PRACTICUM_TOKEN", "TELEGRAM_TOKEN", "TELEGRAM_CHAT_ID"}
              |-> PyStr(<<"secret">>)]
  /\ pc = "check"
  /\ clock = StartClock
  /\ cycles = 1
  /\ current_timestamp = PyInt(StartClock)
  /\ last_message = None /\ last_error = None
  /\ response \in CheckInputs
  /\ homework_statuses = Reply(FALSE, 200, TRUE, response)
  /\ homeworks_list = Unbound /\ homework = Unbound
  /\ status_str = Unbound /\ error = NoExc /\ message = Unbound
  /\ obs = [NoObs EXCEPT !.cursor = current_timestamp,
                         !.from_date = current_timestamp,
                         !.stages = <<"fetch">>]
  /\ prev = NoObs
  /\ hist = History(None, None, PyInt(StartClock))

CheckSpec == InitCheck /\ [][Check]_vars

\* -------------------------------------------------- parse_status on its own
\* The keys a homework may have, and the values under each.
HomeworkValues ==
  [homework_name |-> {None, PyStr(<<>>), Hw1, PyStr(<<"hw2">>)},
   status |-> {None, PyStr(<<>>), Approved, Reviewing, Rejected, Archived},
   id |-> {PyInt(7)}]

ParseInputs ==
  {None, PyStr(<<"hw1">>), PyList(<<>>)}
  \cup DictsOver(HomeworkValues)

\* main about to interpret any of ParseInputs, whatever it last sent.
InitParse ==
  /\ env = [k \in {"PRACTICUM_TOKEN", "TELEGRAM_TOKEN", "TELEGRAM_CHAT_ID"}
              |-> PyStr(<<"secret">>)]
  /\ pc = "parse"
  /\ clock = StartClock
  /\ cycles = 1
  /\ current_timestamp = PyInt(StartClock)
  /\ last_message \in {None, parse_status(Homework(Hw1, Approved)).value}
  /\ last_error = None
  /\ homework \in ParseInputs
  /\ homeworks_list = PyList(<<homework>>)
  /\ response = Api(homeworks_list, PyInt(2000))
  /\ homework_statuses = Reply(FALSE, 200, TRUE, response)
  /\ status_str = Unbound /\ error = NoExc /\ message = Unbound
  /\ obs = [NoObs EXCEPT !.cursor = current_timestamp,
                         !.from_date = current_timestamp,
                         !.stages = <<"fetch", "validate">>]
  /\ prev = NoObs
  /\ hist = History(last_message, None, PyInt(StartClock))

ParseSpec == InitParse /\ [][Parse]_vars


\* =================================================================== claims
\* Read off the record of an iteration.
Invocations(o) == Len(o.sends)
Delivered(o, kind) ==
  Cardinality({i \in DOMAIN o.sends : o.sends[i].kind = kind /\ o.sends[i].ok})
AllDelivered(o) == \A i \in DOMAIN o.sends : o.sends[i].ok
\* A fragment occurs in a text.
Carries(text, fragment) == \E i \in DOMAIN text : text[i] = fragment
\* One text occurs inside another, fragment by fragment.
Embeds(text, part) ==
  \E i \in 1..(Len(text) + 1) : SubSeq(text, i, i + Len(part) - 1) = part
\* parse_status returned the same string in this iteration and the one before.
SameStatusTwice == prev.status # None /\ obs.status = prev.status
\* The iteration failed inside get_api_answer.
FetchFailed(o) == o.stages = <<"fetch">> /\ o.caught # NoExc
TokensOk ==
  check_tokens(env["PRACTICUM_TOKEN"], env["TELEGRAM_TOKEN"],
               env["TELEGRAM_CHAT_ID"])

C2_OnlyStartupEndsTheProcess ==
  pc \in {"exited", "crashed"} => ~TokensOk

\* C3: after their initialisation, last_message and last_error change only
\* in the step that follows a send_message call that returned, and take the
\* text that call delivered; every other step, a send that raised included,
\* leaves both as they are.
C3_DedupStateFollowsDelivery ==
  [][pc # "start" =>
       /\ last_message' # last_message =>
            /\ pc = "set_last_message"
            /\ obs.sends # <<>>
            /\ obs.sends[Len(obs.sends)] = Sent("status", last_message', TRUE)
       /\ last_error' # last_error =>
            /\ pc = "set_last_error"
            /\ obs.sends # <<>>
            /\ obs.sends[Len(obs.sends)] = Sent("error", last_error', TRUE)
    ]_vars

\* An iteration failed at its status send, delivered the error text about it,
\* and both last_message (from an earlier iteration) and last_error are set.
C3_Witness ==
  /\ pc = "sleep_except"
  /\ obs.sends = <<Sent("status", status_str, FALSE),
                   Sent("error", message, TRUE)>>
  /\ last_error = message
  /\ last_message # None /\ last_message # status_str

\* C4: an iteration that fails, wherever it fails, leaves current_timestamp
\* as it was when the iteration fetched, and the next iteration passes that
\* same cursor to get_api_answer.
C4_FailedCycleKeepsCursor ==
  /\ (cycles >= 1 /\ error # NoExc) => current_timestamp = obs.cursor
  /\ (prev.caught # NoExc /\ obs.cursor # Unbound) => obs.cursor = prev.cursor

\* The server moved the cursor to 2000, the next reply had no current_date,
\* and the iteration after it fetched from 2000 again.
C4_Witness ==
  /\ cycles = 3
  /\ prev.caught.kind = "IncorrectApiAnswer"
  /\ prev.cursor = PyInt(2000)
  /\ obs.cursor = PyInt(2000)

\* C5: when two consecutive iterations both fail in get_api_answer with the
\* same formatted error text, at most one error notification is delivered
\* across the two.
C5_OneNotificationForRepeatedFetchError ==
  (/\ FetchFailed(prev) /\ FetchFailed(obs)
   /\ ErrorMessage(prev.caught) = ErrorMessage(obs.caught))
  => Delivered(prev, "error") + Delivered(obs, "error") <= 1

\* Two fetch failures in a row with the same text: the first was notified,
\* the second ended without a send.
C5_Witness ==
  /\ FetchFailed(prev) /\ FetchFailed(obs)
  /\ prev.caught = obs.caught
  /\ prev.sends = <<Sent("error", ErrorMessage(prev.caught), TRUE)>>
  /\ obs.sends = <<>>
  /\ pc = "loop"

\* C6: an iteration whose check_response returned an empty list invokes
\* send_message not at all.
C6_EmptyListNeverNotified ==
  homeworks_list = PyList(<<>>) => obs.sends = <<>>

\* C7: an iteration in which fetch, validation and interpretation succeeded
\* and no send failed ends with current_timestamp equal to the current_date
\* of its reply, whether or not a notification went out.
C7_SuccessMovesCursorToCurrentDate ==
  (cycles >= 1 /\ pc = "loop" /\ obs.status # None /\ AllDelivered(obs))
  => current_timestamp = Get(response, "current_date")

\* A second iteration with an unchanged status sent nothing and still moved
\* the cursor to the current_date of its own reply.
C7_Witness ==
  /\ pc = "loop"
  /\ SameStatusTwice
  /\ obs.sends = <<>>
  /\ current_timestamp = Get(response, "current_date")
  /\ current_timestamp # obs.cursor

\* check_response raised an exception of this class and bound nothing.
CheckFailedWith(kind) ==
  pc = "except" /\ error.kind = kind /\ homeworks_list = Unbound

\* C8: check_response sorts every input, first case that applies: None fails
\* with EmptyResponse; anything else that is no dict fails with TypeError;
\* a dict without homeworks or without current_date fails with
\* IncorrectApiAnswer; a dict with both whose homeworks is no list fails with
\* TypeError; every other input gives back response['homeworks'] as it is,
\* empty or not.
C8_CheckResponseClassifies ==
  pc # "check" =>
    IF response = None THEN CheckFailedWith("EmptyResponse")
    ELSE IF response.t # "dict" THEN CheckFailedWith("TypeError")
    ELSE IF ~({"homeworks", "current_date"} \subseteq DOMAIN response.v)
      THEN CheckFailedWith("IncorrectApiAnswer")
    ELSE IF response.v["homeworks"].t # "list"
      THEN CheckFailedWith("TypeError")
    ELSE /\ pc = "pick"
         /\ error = NoExc
         /\ homeworks_list = response.v["homeworks"]

\* A reply with a list of homeworks but no current_date was turned down as
\* incomplete.
C8_Witness ==
  /\ pc = "except"
  /\ response = Only("homeworks", PyList(<<Homework(Hw1, Approved)>>))
  /\ error.kind = "IncorrectApiAnswer"

\* The errors parse_status raises for the records of ParseInputs that lack a
\* field, and for those that have both fields and a status outside the
\* catalog.
LacksField(record) ==
  Get(record, "homework_name") = None \/ Get(record, "status") = None
Records == {h \in ParseInputs : h.t = "dict"}
MissingFieldErrors ==
  {parse_status(h).error : h \in {r \in Records : LacksField(r)}}
UnknownStatusErrors ==
  {parse_status(h).error :
     h \in {r \in Records :
              /\ ~LacksField(r)
              /\ r.v["status"] \notin {Approved, Reviewing, Rejected}}}

\* C9: for a record, parse_status fails with a missing-field error when
\* homework_name or status is absent, fails with another error, raised for
\* no record that lacks a field, when the status is none of approved,
\* reviewing, rejected, and otherwise returns a string that depends on the
\* name and the status alone and embeds the name and the catalog verdict of
\* the status.
C9_ParseStatusContract ==
  (pc # "parse" /\ homework.t = "dict") =>
    IF LacksField(homework)
      THEN /\ pc = "except" /\ status_str = Unbound
           /\ error.kind = "KeyError"
           /\ error \notin UnknownStatusErrors
    ELSE IF homework.v["status"] \notin {Approved, Reviewing, Rejected}
      THEN /\ pc = "except" /\ status_str = Unbound
           /\ error.kind = "KeyError"
           /\ error \notin MissingFieldErrors
    ELSE /\ pc = "compare" /\ error = NoExc
         /\ Embeds(Text(status_str), Text(homework.v["homework_name"]))
         /\ Embeds(Text(status_str),
                   Text(HOMEWORK_STATUSES(homework.v["status"])))
         /\ status_str =
              parse_status(Homework(homework.v["homework_name"],
                                    homework.v["status"])).value

\* A record with a name and no status was turned down, with an error that no
\* unknown status gets.
C9_Witness ==
  /\ pc = "except"
  /\ homework = Only("homework_name", Hw1)
  /\ error \in MissingFieldErrors
  /\ error \notin UnknownStatusErrors

\* C10: get_api_answer fails with GetApiError on a transport failure and on
\* every status code but 200, and the text of that error carries the endpoint
\* and the status code of the reply, or the diagnostic of the transport
\* failure.
C10_FetchErrorCarriesDiagnostic ==
  (/\ pc = "except" /\ obs.stages = <<"fetch">>
   /\ ~TryRequest(homework_statuses).ok)
  => /\ error.kind = "GetApiError"
     /\ Carries(error.msg, ENDPOINT)
     /\ IF homework_statuses.raises
          THEN Embeds(error.msg, TryRequest(homework_statuses).error.msg)
          ELSE Carries(error.msg,
                       StatusCodeText(homework_statuses.status_code))

\* main has got past its startup.
Started == pc \notin {"start", "exited"}

\* One of the three tokens is unset or empty.
TokenMissing ==
  \E name \in {"PRACTICUM_TOKEN", "TELEGRAM_TOKEN", "TELEGRAM_CHAT_ID"} :
    env[name] = None \/ env[name] = PyStr(<<>>)

\* C11: when one of the three tokens is unset or empty, main exits before the
\* loop: no iteration begins, no request is made, nothing is sent.
C11_MissingTokenStopsBeforeLoop ==
  TokenMissing =>
    /\ pc \in {"start", "exited"}
    /\ cycles = 0
    /\ obs = NoObs /\ prev = NoObs
    /\ homework_statuses = NoReply
    /\ hist = History(Unbound, Unbound, Unbound)

\* main has exited with the first two tokens set and TELEGRAM_CHAT_ID empty.
C11_Witness ==
  /\ pc = "exited"
  /\ Truthy(env["PRACTICUM_TOKEN"]) /\ Truthy(env["TELEGRAM_TOKEN"])
  /\ env["TELEGRAM_CHAT_ID"] = PyStr(<<>>)

\* C12: in an iteration that fails before any send (in the fetch, the
\* validation or the interpretation), send_message is invoked with the
\* formatted error text exactly when that text differs from last_error, and
\* once at most; when the send is delivered, last_error becomes that text.
C12_ErrorNotifiedIffNew ==
  (obs.caught # NoExc /\ obs.caught.kind # "SendMessageFailure") =>
    /\ message = ErrorMessage(obs.caught)
    /\ CASE pc = "send_error" ->
              obs.sends = <<>> /\ message # last_error
         [] pc = "set_last_error" ->
              /\ obs.sends = <<Sent("error", message, TRUE)>>
              /\ message # last_error
         [] pc = "crashed" ->
              /\ obs.sends = <<Sent("error", message, FALSE)>>
              /\ message # last_error
         [] pc \in {"sleep_except", "loop"} ->
              /\ message = last_error
              /\ obs.sends \in {<<>>, <<Sent("error", message, TRUE)>>}
         [] OTHER -> FALSE

\* An iteration whose interpretation failed has delivered the error text and
\* last_error holds it.
C12_Witness ==
  /\ pc = "sleep_except"
  /\ obs.stages = <<"fetch", "validate", "interpret">>
  /\ obs.sends = <<Sent("error", ErrorMessage(obs.caught), TRUE)>>
  /\ last_error = ErrorMessage(obs.caught)

\* C13: a status send that fails is never followed by a send_message call
\* whose text describes the failed send.
C13_FailedStatusSendStaysSilent ==
  \A i \in DOMAIN obs.sends :
    obs.sends[i].kind = "error" => obs.caught.kind # "SendMessageFailure"

\* C14: between the fetch of one iteration and the fetch of the next, main
\* sleeps once, for RETRY_TIME, after a failed iteration as after any other.
C14_OneSleepBetweenFetches ==
  cycles >= 1 =>
    /\ pc = "loop" => obs.sleeps = <<RETRY_TIME>>
    /\ pc # "loop" => obs.sleeps = <<>>
    /\ cycles >= 2 => prev.sleeps = <<RETRY_TIME>>

\* The second iteration has fetched after a first one that failed and slept
\* once.
C14_Witness ==
  /\ cycles = 2
  /\ obs.stages = <<"fetch">>
  /\ prev.caught # NoExc
  /\ prev.sleeps = <<RETRY_TIME>>
  /\ clock = StartClock + RETRY_TIME

StageOrder == <<"fetch", "validate", "interpret", "notify">>
C16_StagesInOrder ==
  /\ Len(obs.stages) <= Len(StageOrder)
  /\ obs.stages = SubSeq(StageOrder, 1, Len(obs.stages))
  /\ Len(obs.stages) >= 2 => response # Unbound
  /\ Len(obs.stages) >= 3 =>
       /\ check_response(response).ok
       /\ homeworks_list.t = "list" /\ homeworks_list.v # <<>>
  /\ Len(obs.stages) >= 4 => obs.status # None /\ status_str = obs.status
  /\ \A i \in DOMAIN obs.sends :
       obs.sends[i].kind = "status" =>
         /\ obs.stages = StageOrder
         /\ i = 1
         /\ obs.sends[i].text = obs.status

\* All four stages have run and the status is delivered.
C16_Witness ==
  /\ pc = "set_last_message"
  /\ obs.stages = StageOrder
  /\ obs.sends = <<Sent("status", obs.status, TRUE)>>

\* C17: last_error is the error text the chat received last, through
\* iterations that succeed as well, and send_message is invoked with an error
\* text only when it differs from that text.
C17_ErrorMemoryOutlivesSuccess ==
  Started =>
    /\ pc # "set_last_error" => last_error = hist.error
    /\ pc = "send_error" => message # hist.error

\* The first iteration delivered an error text, the second succeeded, the
\* third failed with the same text and sent nothing.
C17_Witness ==
  /\ cycles = 3
  /\ pc = "sleep_except"
  /\ prev.caught = NoExc /\ prev.status # None
  /\ obs.sends = <<>>
  /\ message = hist.error

\* C18: last_message is the status text the chat received last, through
\* failed iterations as well; send_message is invoked with a status text only
\* when it differs from that text, so a delivered status differs from the one
\* delivered before it.
C18_StatusNeverRepeated ==
  Started =>
    /\ pc # "set_last_message" => last_message = hist.status
    /\ pc = "send_status" => status_str # hist.status
    /\ pc = "set_last_message" => hist.status # last_message

\* A status was delivered, the next iteration failed, and the one after it
\* found the same status and did not send it.
C18_Witness ==
  /\ cycles = 3
  /\ pc = "advance"
  /\ prev.caught # NoExc
  /\ obs.sends = <<>>
  /\ status_str = hist.status
  /\ last_message = status_str

\* C19: in one iteration at most one message is delivered and send_message is
\* invoked at most twice; when twice, the first call is a status send that
\* failed and the second an error send.
C19_AtMostOneDeliveryPerCycle ==
  /\ Invocations(obs) <= 2
  /\ Delivered(obs, "status") + Delivered(obs, "error") <= 1
  /\ Invocations(obs) = 2 =>
       /\ obs.sends[1].kind = "status" /\ ~obs.sends[1].ok
       /\ obs.sends[2].kind = "error"

\* An iteration has ended after two calls, the second of them delivered.
C19_Witness ==
  /\ pc = "loop"
  /\ Invocations(obs) = 2
  /\ Delivered(obs, "error") = 1

=============================================================================
